---------------------------- MODULE Spec2Model ----------------------------
(***************************************************************************)
(* A model of the Excel data appender: the main window                     *)
(* (Data_Consolidator.py), the mapping review dialog                       *)
(* (mapping_review_dialog.py) and the merge (data_appender.py).            *)
(*                                                                         *)
(* A DataFrame is a record [columns, data]: the column labels in order     *)
(* and the rows, each row a sequence of cells aligned with the columns.    *)
(* A workbook on disk is a record [header, rows] holding the header row    *)
(* exactly as it is stored, repeated names included.                       *)
(* manual_mappings is a Python dict: a sequence of <<target, source>>      *)
(* pairs in insertion order, one pair per key.                             *)
(***************************************************************************)
EXTENDS Naturals, Sequences, FiniteSets, TLC

VARIABLES
    fs,                \* the workbooks on disk, by path
    source_input,      \* MainWindow.source_input.text()
    target_input,      \* MainWindow.target_input.text()
    pc,                \* where MainWindow.append_data stands
    message,           \* title of the last QMessageBox shown
    source_columns,    \* load_mappings: the source header it read
    item_text,         \* mapping_tree: per row <<text(0), text(1)>>
    combo_items,       \* per row the items of its QComboBox (<<>>: no combo)
    combo_index,       \* per row currentIndex() of its QComboBox
    manual_mappings,   \* MappingReviewDialog.manual_mappings
    dialog_result,     \* what mapping_dialog.exec() returns
    source_df,         \* append_data: the frames of the last call
    target_df,
    common_columns,    \* as a set: the order of the list is not kept
    appended_df,
    stats,             \* the statistics append_data returned
    n_appends          \* calls of append_data so far

vars == <<fs, source_input, target_input, pc, message, source_columns,
          item_text, combo_items, combo_index, manual_mappings,
          dialog_result, source_df, target_df, common_columns,
          appended_df, stats, n_appends>>

widget_vars == <<source_columns, item_text, combo_items, combo_index>>

dialog_vars == <<widget_vars, manual_mappings, dialog_result>>

call_vars == <<source_df, target_df, common_columns, appended_df, stats>>

-----------------------------------------------------------------------------
(* Bounds of the model *)

\* rows a workbook holds before the first merge
MaxRows == 2

\* merges in one run of the application
MaxAppends == 1

-----------------------------------------------------------------------------
(* Constants of the program *)

\* process.extract(..., limit=5)
SuggestionLimit == 5

\* if match[1] >= 60
ScoreThreshold == 60

Placeholder == "Select mapping..."

NotMapped == "Not Mapped"

-----------------------------------------------------------------------------
(* Cells and workbooks *)

Range(s) == {s[i] : i \in 1..Len(s)}

\* Cells are numbers: 0 is a missing value (an empty spreadsheet cell,
\* numpy.nan in a frame), 1 is the empty string that fillna('') puts in
\* its place, and every value stored in a workbook at the start is a
\* number of its own.
NaN == 0

EmptyStr == 1

PathId(p) ==
    CASE p = "contacts.xlsx" -> 1
      [] p = "wide.xlsx"     -> 2
      [] p = "master.xlsx"   -> 3
      [] p = "dups.xlsx"     -> 4
      [] p = "legacy.xlsx"   -> 5

\* the value first stored in row i, column j of workbook p
Val(p, i, j) == PathId(p) * 100 + i * 10 + j

EmptyDF == [columns |-> <<>>, data |-> <<>>]

NoStats == [source_columns |-> 0, target_columns |-> 0,
            mapped_columns |-> 0, appended_rows |-> 0]

\* The workbooks the user can pick: the source among SourcePaths, the
\* target among TargetPaths (contacts.xlsx can be both).
SourcePaths == {"contacts.xlsx", "wide.xlsx"}

TargetPaths == {"contacts.xlsx", "master.xlsx", "dups.xlsx", "legacy.xlsx"}

Paths == SourcePaths \cup TargetPaths

\* the header row stored in each workbook at the start
RawHeader(p) ==
    CASE p = "contacts.xlsx" -> <<"Name", "Email", "Phone">>
      [] p = "wide.xlsx"     -> <<"Telephone", "Nam", "Names", "Surname",
                                  "Name", "Zip", "Full Name">>
      [] p = "master.xlsx"   -> <<"name", "Email", "Telephone">>
      [] p = "dups.xlsx"     -> <<"Name", "Name">>
      [] p = "legacy.xlsx"   -> <<"E-mail", "Mail">>

\* the first n rows of workbook p; cells are missing on a checkerboard
InitialRows(p, n) ==
    [i \in 1..n |->
        [j \in 1..Len(RawHeader(p)) |->
            IF (i + j) % 2 = 0 THEN NaN ELSE Val(p, i, j)]]

-----------------------------------------------------------------------------
(* pandas: reading and writing a workbook *)

\* read_excel never yields a repeated label: the k-th repeat of a header
\* name is read as "name.k"
dedup_names(header) ==
    [i \in 1..Len(header) |->
        LET k == Cardinality({j \in 1..(i - 1) : header[j] = header[i]})
        IN  IF k = 0 THEN header[i] ELSE header[i] \o "." \o ToString(k)]

read_excel(file) ==
    [columns |-> dedup_names(file.header), data |-> file.rows]

\* read_excel(file, nrows=0): the header only
read_excel_nrows0(file) ==
    [columns |-> dedup_names(file.header), data |-> <<>>]

\* to_excel(index=False): the labels become the header row; an empty
\* string is stored as an empty cell, so it is read back as missing
to_excel(df) ==
    [header |-> df.columns,
     rows   |-> [i \in 1..Len(df.data) |->
                   [j \in 1..Len(df.columns) |->
                      IF df.data[i][j] = EmptyStr THEN NaN
                      ELSE df.data[i][j]]]]

-----------------------------------------------------------------------------
(* fuzzywuzzy: the scorer behind process.extract *)

\* utils.full_process: characters that are neither letters nor digits
\* become spaces, then lower case, then strip
full_process(s) ==
    CASE s = "E-mail"    -> "e mail"
      [] s = "Email"     -> "email"
      [] s = "Full Name" -> "full name"
      [] s = "Mail"      -> "mail"
      [] s = "Nam"       -> "nam"
      [] s = "Name"      -> "name"
      [] s = "Name.1"    -> "name 1"
      [] s = "Names"     -> "names"
      [] s = "Phone"     -> "phone"
      [] s = "Surname"   -> "surname"
      [] s = "Telephone" -> "telephone"
      [] s = "Zip"       -> "zip"
      [] s = "name"      -> "name"

\* fuzz.WRatio on processed strings (query first), as fuzzywuzzy computes
\* it with difflib's SequenceMatcher
WRatioTable ==
    <<"name", "name">> :> 100 @@ <<"name", "email">> :> 22 @@ <<"name", "phone">> :> 44 @@ <<"name", "telephone">> :> 60 @@ <<"name", "nam">> :> 86 @@ <<"name", "names">> :> 89 @@ <<"name", "surname">> :> 90 @@ <<"name", "zip">> :> 0 @@ <<"name", "full name">> :> 90 @@
    <<"email", "name">> :> 22 @@ <<"email", "email">> :> 100 @@ <<"email", "phone">> :> 20 @@ <<"email", "telephone">> :> 36 @@ <<"email", "nam">> :> 30 @@ <<"email", "names">> :> 20 @@ <<"email", "surname">> :> 17 @@ <<"email", "zip">> :> 30 @@ <<"email", "full name">> :> 30 @@
    <<"e mail", "name">> :> 22 @@ <<"e mail", "email">> :> 91 @@ <<"e mail", "phone">> :> 18 @@ <<"e mail", "telephone">> :> 30 @@ <<"e mail", "nam">> :> 30 @@ <<"e mail", "names">> :> 18 @@ <<"e mail", "surname">> :> 15 @@ <<"e mail", "zip">> :> 30 @@ <<"e mail", "full name">> :> 26 @@
    <<"mail", "name">> :> 25 @@ <<"mail", "email">> :> 89 @@ <<"mail", "phone">> :> 0 @@ <<"mail", "telephone">> :> 22 @@ <<"mail", "nam">> :> 29 @@ <<"mail", "names">> :> 22 @@ <<"mail", "surname">> :> 30 @@ <<"mail", "zip">> :> 29 @@ <<"mail", "full name">> :> 30 @@
    <<"telephone", "name">> :> 60 @@ <<"telephone", "email">> :> 36 @@ <<"telephone", "phone">> :> 90 @@ <<"telephone", "telephone">> :> 100 @@ <<"telephone", "nam">> :> 36 @@ <<"telephone", "names">> :> 51 @@ <<"telephone", "surname">> :> 12 @@ <<"telephone", "zip">> :> 30 @@ <<"telephone", "full name">> :> 11 @@
    <<"name 1", "name">> :> 90 @@ <<"name 1", "email">> :> 18 @@ <<"name 1", "phone">> :> 36 @@ <<"name 1", "telephone">> :> 45 @@ <<"name 1", "nam">> :> 90 @@ <<"name 1", "names">> :> 73 @@ <<"name 1", "surname">> :> 62 @@ <<"name 1", "zip">> :> 0 @@ <<"name 1", "full name">> :> 86 @@
    <<"phone", "name">> :> 44 @@ <<"phone", "email">> :> 20 @@ <<"phone", "phone">> :> 100 @@ <<"phone", "telephone">> :> 90 @@ <<"phone", "nam">> :> 36 @@ <<"phone", "names">> :> 40 @@ <<"phone", "surname">> :> 33 @@ <<"phone", "zip">> :> 30 @@ <<"phone", "full name">> :> 36

\* the score process.extract gives a choice: both strings processed, and
\* 0 when either is empty after processing
Score(query, choice) ==
    LET p1 == full_process(query)
        p2 == full_process(choice)
    IN  IF p1 = "" \/ p2 = "" THEN 0 ELSE WRatioTable[<<p1, p2>>]

\* process.extract as it would be with limit=None: every choice, sorted
extract_no_limit(query, choices, limit) ==
    LET n == Len(choices)
        ahead(j) == {i \in 1..n :
                        \/ Score(query, choices[i]) > Score(query, choices[j])
                        \/ /\ Score(query, choices[i]) = Score(query, choices[j])
                           /\ i < j}
        at(k) == CHOOSE j \in 1..n : Cardinality(ahead(j)) = k - 1
    IN  [k \in 1..n |-> <<choices[at(k)], Score(query, choices[at(k)])>>]

\* process.extract(query, choices, limit): heapq.nlargest by score, so
\* descending by score and, among equal scores, in the order of choices
extract(query, choices, limit) ==
    LET n == Len(choices)
        ahead(j) == {i \in 1..n :
                        \/ Score(query, choices[i]) > Score(query, choices[j])
                        \/ /\ Score(query, choices[i]) = Score(query, choices[j])
                           /\ i < j}
        at(k) == CHOOSE j \in 1..n : Cardinality(ahead(j)) = k - 1
    IN  [k \in 1..(IF n < limit THEN n ELSE limit) |->
            <<choices[at(k)], Score(query, choices[at(k)])>>]

-----------------------------------------------------------------------------
(* MappingReviewDialog *)

\* d[key] = value on a dict: an old key keeps its place, a new one is last
DictSet(d, key, value) ==
    IF \E k \in 1..Len(d) : d[k][1] = key
    THEN [k \in 1..Len(d) |-> IF d[k][1] = key THEN <<key, value>> ELSE d[k]]
    ELSE Append(d, <<key, value>>)

DictKeys(d) == {d[k][1] : k \in 1..Len(d)}

DictGet(d, key) == d[CHOOSE k \in 1..Len(d) : d[k][1] = key][2]

\* str.lower on the column names of the workbooks
Lower(s) == IF s = "Name" THEN "name" ELSE IF s = "Email" THEN "email" ELSE s

\* the membership test as it would be if it ignored case
is_exact_ignoring_case(target_col, columns) ==
    Lower(target_col) \in {Lower(c) : c \in Range(columns)}

\* if target_col in source_columns
is_exact(target_col, columns) == target_col \in Range(columns)

\* suggestions = [match[0] for match in matches if match[1] >= 60]
suggestions(target_col, columns) ==
    LET matches == extract(target_col, columns, SuggestionLimit)
        kept    == SelectSeq(matches, LAMBDA match : match[2] >= ScoreThreshold)
    IN  [k \in 1..Len(kept) |-> kept[k][1]]

RECURSIVE exact_mappings(_, _, _)
\* the manual_mappings the loop of load_mappings leaves, rows 1..r done
exact_mappings(target_columns, columns, r) ==
    IF r = 0 THEN <<>>
    ELSE LET before == exact_mappings(target_columns, columns, r - 1)
             target_col == target_columns[r]
         IN  IF is_exact(target_col, columns)
             THEN DictSet(before, target_col, target_col)
             ELSE before

\* load_mappings: one tree row per target column
load_mappings(source_file, target_file) ==
    LET columns        == read_excel_nrows0(source_file).columns
        target_columns == read_excel_nrows0(target_file).columns
    IN  [source_columns |-> columns,
         item_text |->
            [r \in 1..Len(target_columns) |->
                IF is_exact(target_columns[r], columns)
                THEN <<target_columns[r], target_columns[r]>>
                ELSE <<target_columns[r], NotMapped>>],
         combo_items |->
            [r \in 1..Len(target_columns) |->
                IF is_exact(target_columns[r], columns)
                THEN <<>>
                ELSE <<Placeholder>> \o suggestions(target_columns[r], columns)],
         combo_index |-> [r \in 1..Len(target_columns) |-> 0],
         manual_mappings |->
            exact_mappings(target_columns, columns, Len(target_columns))]

\* on_mapping_selected as it would be if the placeholder cleared the row
on_mapping_selected_reverting(mappings, texts, r, items, index) ==
    IF index > 0
    THEN [manual_mappings |-> DictSet(mappings, texts[r][1], items[index + 1]),
          item_text |-> [texts EXCEPT ![r] = <<texts[r][1], items[index + 1]>>]]
    ELSE [manual_mappings |-> SelectSeq(mappings, LAMBDA m : m[1] # texts[r][1]),
          item_text |-> [texts EXCEPT ![r] = <<texts[r][1], NotMapped>>]]

\* on_mapping_selected without its test of currentIndex()
on_mapping_selected_unguarded(mappings, texts, r, items, index) ==
    [manual_mappings |-> DictSet(mappings, texts[r][1], items[index + 1]),
     item_text |-> [texts EXCEPT ![r] = <<texts[r][1], items[index + 1]>>]]

\* on_mapping_selected(item, combo), combo showing item number index:
\* the placeholder (index 0) changes nothing
on_mapping_selected(mappings, texts, r, items, index) ==
    IF index > 0
    THEN [manual_mappings |-> DictSet(mappings, texts[r][1], items[index + 1]),
          item_text |-> [texts EXCEPT ![r] = <<texts[r][1], items[index + 1]>>]]
    ELSE [manual_mappings |-> mappings, item_text |-> texts]

-----------------------------------------------------------------------------
(* data_appender.append_data *)

\* position of a label among the columns of a frame
ColumnIndex(columns, col) == CHOOSE j \in 1..Len(columns) : columns[j] = col

\* df.rename(columns={old: new})
rename(df, old, new) ==
    [columns |-> [j \in 1..Len(df.columns) |->
                     IF df.columns[j] = old THEN new ELSE df.columns[j]],
     data    |-> df.data]

RECURSIVE apply_mappings(_, _, _)
\* for target_col, source_col in manual_mappings.items(), from pair k on:
\* a pair whose source column is no longer a label of the frame is skipped
apply_mappings(df, mappings, k) ==
    IF k > Len(mappings) THEN df
    ELSE LET target_col == mappings[k][1]
             source_col == mappings[k][2]
         IN  IF source_col \in Range(df.columns)
             THEN apply_mappings(rename(df, source_col, target_col), mappings, k + 1)
             ELSE apply_mappings(df, mappings, k + 1)

\* set(mapped_source_df.columns) & set(target_df.columns)
common_set(mapped_df, tgt_df) ==
    Range(mapped_df.columns) \cap Range(tgt_df.columns)

\* mapped_source_df[col] = mapped_source_df[col].fillna('') for col in cols
fillna(df, cols) ==
    [columns |-> df.columns,
     data    |-> [i \in 1..Len(df.data) |->
                    [j \in 1..Len(df.columns) |->
                       IF df.columns[j] \in Range(cols) /\ df.data[i][j] = NaN
                       THEN EmptyStr ELSE df.data[i][j]]]]

\* df[cols]
select_columns(df, cols) ==
    [columns |-> cols,
     data    |-> [i \in 1..Len(df.data) |->
                    [k \in 1..Len(cols) |->
                       df.data[i][ColumnIndex(df.columns, cols[k])]]]]

\* one row of a frame laid out on other columns, missing where it has none
reindex_row(df, i, columns) ==
    [j \in 1..Len(columns) |->
        IF columns[j] \in Range(df.columns)
        THEN df.data[i][ColumnIndex(df.columns, columns[j])]
        ELSE NaN]

\* pd.concat as it would be if a frame without columns were left out
concat_dropping_empty(a, b) ==
    LET columns == a.columns \o SelectSeq(b.columns, LAMBDA c : c \notin Range(a.columns))
    IN  [columns |-> columns,
         data    |-> [i \in 1..Len(a.data) |-> reindex_row(a, i, columns)]
                     \o (IF b.columns = <<>> THEN <<>>
                         ELSE [i \in 1..Len(b.data) |-> reindex_row(b, i, columns)])]

\* pd.concat as it would be with the two frames given in the other order
concat_swapped(a, b) ==
    LET columns == b.columns \o SelectSeq(a.columns, LAMBDA c : c \notin Range(b.columns))
    IN  [columns |-> columns,
         data    |-> [i \in 1..Len(b.data) |-> reindex_row(b, i, columns)]
                     \o [i \in 1..Len(a.data) |-> reindex_row(a, i, columns)]]

\* pd.concat([a, b], ignore_index=True): the columns of a, then those only
\* b has; the rows of a, then the rows of b
concat(a, b) ==
    LET columns == a.columns \o SelectSeq(b.columns, LAMBDA c : c \notin Range(a.columns))
    IN  [columns |-> columns,
         data    |-> [i \in 1..Len(a.data) |-> reindex_row(a, i, columns)]
                     \o [i \in 1..Len(b.data) |-> reindex_row(b, i, columns)]]

\* the orders list(set) can give the common columns
Orderings(S) ==
    {q \in [1..Cardinality(S) -> S] : \A i, j \in 1..Cardinality(S) : i # j => q[i] # q[j]}

\* common_columns = list(set(...) & set(...)): any order of the set
common_orders(source_file, target_file, mappings) ==
    Orderings(common_set(apply_mappings(read_excel(source_file), mappings, 1),
                         read_excel(target_file)))

\* append_data(source_file, target_file, manual_mappings), the common
\* columns coming out of the set in the order `common`
append_data(source_file, target_file, mappings, common) ==
    LET src_df    == read_excel(source_file)
        tgt_df    == read_excel(target_file)
        renamed   == apply_mappings(src_df, mappings, 1)
        filled    == fillna(renamed, common)
        appended  == concat(tgt_df, select_columns(filled, common))
    IN  [source_df        |-> src_df,
         target_df        |-> tgt_df,
         common_columns   |-> Range(common),
         appended_df      |-> appended,
         written          |-> to_excel(appended),
         stats |-> [source_columns |-> Len(src_df.columns),
                    target_columns |-> Len(tgt_df.columns),
                    mapped_columns |-> Len(common),
                    appended_rows  |-> Len(filled.data)]]

-----------------------------------------------------------------------------
(* The application *)

\* the run is followed up to MaxAppends merges
Running == n_appends < MaxAppends

\* the dialog is a local of MainWindow.append_data: its widgets are gone
\* when the handler returns
DialogClosed ==
    /\ source_columns' = <<>>
    /\ item_text' = <<>>
    /\ combo_items' = <<>>
    /\ combo_index' = <<>>

Init ==
    /\ \E n \in 0..MaxRows :
          fs = [p \in Paths |->
                  [header |-> RawHeader(p),
                   rows   |-> InitialRows(p, IF p \in SourcePaths
                                             THEN n ELSE MaxRows)]]
    /\ source_input = ""
    /\ target_input = ""
    /\ pc = "main"
    /\ message = ""
    /\ source_columns = <<>>
    /\ item_text = <<>>
    /\ combo_items = <<>>
    /\ combo_index = <<>>
    /\ manual_mappings = <<>>
    /\ dialog_result = 0
    /\ source_df = EmptyDF
    /\ target_df = EmptyDF
    /\ common_columns = {}
    /\ appended_df = EmptyDF
    /\ stats = NoStats
    /\ n_appends = 0

\* browse_file(self.source_input, ...): a cancelled file dialog (an empty
\* file_name) leaves the field alone
browse_source ==
    /\ pc = "main"
    /\ Running
    /\ \E file_name \in SourcePaths \cup {""} :
          source_input' = IF file_name # "" THEN file_name ELSE source_input
    /\ UNCHANGED <<fs, target_input, pc, message, dialog_vars, call_vars, n_appends>>

\* browse_file(self.target_input, ...)
browse_target ==
    /\ pc = "main"
    /\ Running
    /\ \E file_name \in TargetPaths \cup {""} :
          target_input' = IF file_name # "" THEN file_name ELSE target_input
    /\ UNCHANGED <<fs, source_input, pc, message, dialog_vars, call_vars, n_appends>>

\* MainWindow.append_data with a file missing: the warning, and return
append_data_missing_files ==
    /\ pc = "main"
    /\ Running
    /\ source_input = "" \/ target_input = ""
    /\ message' = "Missing Files"
    /\ UNCHANGED <<fs, source_input, target_input, pc, dialog_vars, call_vars, n_appends>>

\* MainWindow.append_data with both files: the dialog is built
\* (load_mappings) and exec() starts
append_data_open_dialog ==
    /\ pc = "main"
    /\ Running
    /\ source_input # "" /\ target_input # ""
    /\ LET loaded == load_mappings(fs[source_input], fs[target_input])
       IN  /\ source_columns' = loaded.source_columns
           /\ item_text' = loaded.item_text
           /\ combo_items' = loaded.combo_items
           /\ combo_index' = loaded.combo_index
           /\ manual_mappings' = loaded.manual_mappings
    /\ dialog_result' = 0
    /\ pc' = "dialog"
    /\ message' = ""
    /\ source_df' = EmptyDF
    /\ target_df' = EmptyDF
    /\ common_columns' = {}
    /\ appended_df' = EmptyDF
    /\ stats' = NoStats
    /\ UNCHANGED <<fs, source_input, target_input, n_appends>>

\* the user changes the selection of the combo of row r:
\* currentIndexChanged calls on_mapping_selected
combo_index_changed ==
    /\ pc = "dialog"
    /\ \E r \in 1..Len(combo_items) :
       \E index \in 0..(Len(combo_items[r]) - 1) :
          /\ index # combo_index[r]
          /\ combo_index' = [combo_index EXCEPT ![r] = index]
          /\ LET after == on_mapping_selected(manual_mappings, item_text, r,
                                              combo_items[r], index)
             IN  /\ manual_mappings' = after.manual_mappings
                 /\ item_text' = after.item_text
    /\ UNCHANGED <<fs, source_input, target_input, pc, message, source_columns,
                   combo_items, dialog_result, call_vars, n_appends>>

\* Proceed: QDialog.accept, exec() returns 1
accept ==
    /\ pc = "dialog"
    /\ dialog_result' = 1
    /\ pc' = "exec_returned"
    /\ UNCHANGED <<fs, source_input, target_input, message, source_columns,
                   item_text, combo_items, combo_index, manual_mappings,
                   call_vars, n_appends>>

\* Cancel: QDialog.reject, exec() returns 0
reject ==
    /\ pc = "dialog"
    /\ dialog_result' = 0
    /\ pc' = "exec_returned"
    /\ UNCHANGED <<fs, source_input, target_input, message, source_columns,
                   item_text, combo_items, combo_index, manual_mappings,
                   call_vars, n_appends>>

\* get_manual_mappings, append_data (which overwrites the target file),
\* the statistics shown, and the handler returns
do_append ==
    /\ \E common \in common_orders(fs[source_input], fs[target_input],
                                    manual_mappings) :
       \E done \in {append_data(fs[source_input], fs[target_input],
                                manual_mappings, common)} :
                  /\ source_df' = done.source_df
                  /\ target_df' = done.target_df
                  /\ common_columns' = done.common_columns
                  /\ appended_df' = done.appended_df
                  /\ stats' = done.stats
                  /\ fs' = [fs EXCEPT ![target_input] = done.written]
    /\ n_appends' = n_appends + 1
    /\ message' = "Operation Successful"
    /\ pc' = "main"
    /\ DialogClosed
    /\ UNCHANGED <<source_input, target_input, manual_mappings, dialog_result>>

\* if mapping_dialog.exec(): the dialog was closed with Proceed
append_data_proceed ==
    /\ pc = "exec_returned"
    /\ dialog_result # 0
    /\ do_append

\* the handler as it would be if it did not test what exec() returned
append_data_ignoring_result ==
    /\ pc = "exec_returned"
    /\ dialog_result = 0
    /\ do_append

\* exec() returned 0: append_data of the main window returns
append_data_cancelled ==
    /\ pc = "exec_returned"
    /\ dialog_result = 0
    /\ pc' = "main"
    /\ DialogClosed
    /\ manual_mappings' = <<>>
    /\ UNCHANGED <<fs, source_input, target_input, message, dialog_result,
                   call_vars, n_appends>>

Next ==
    \/ browse_source
    \/ browse_target
    \/ append_data_missing_files
    \/ append_data_open_dialog
    \/ combo_index_changed
    \/ accept
    \/ reject
    \/ append_data_proceed
    \/ append_data_cancelled

Spec == Init /\ [][Next]_vars

-----------------------------------------------------------------------------
(* What the claims speak of *)

\* append_data has returned and its statistics are on screen
Merged == message = "Operation Successful"

\* the dialog exists: it is open, or exec() has just returned
DialogAlive == pc \in {"dialog", "exec_returned"}

Rows == 1..Len(item_text)

TargetCol(r) == item_text[r][1]

SourceText(r) == item_text[r][2]

HasCombo(r) == combo_items[r] # <<>>

\* the suggestions a combo offers, the placeholder left out
Offered(r) == Tail(combo_items[r])

NoRepeat(seq) == \A i, j \in 1..Len(seq) : i # j => seq[i] # seq[j]

IsBlank(v) == v \in {NaN, EmptyStr}

SameValue(v, w) == v = w \/ (IsBlank(v) /\ IsBlank(w))

\* the cell of appended row i (counted after the target's rows) under col
AppendedCell(i, col) ==
    appended_df.data[Len(target_df.data) + i][ColumnIndex(appended_df.columns, col)]

SourceCell(i, col) == source_df.data[i][ColumnIndex(source_df.columns, col)]

-----------------------------------------------------------------------------
(* C1 *)

\* C1: after a merge the merged table has as many rows as the target table
\* and the source table together, and appended_rows is the source table's
\* number of rows, whatever the mapping, also when it is empty or leaves no
\* common column.
C1_RowCount ==
    Merged =>
        /\ Len(appended_df.data) = Len(target_df.data) + Len(source_df.data)
        /\ stats.appended_rows = Len(source_df.data)

C1_Witness ==
    /\ Merged
    /\ manual_mappings = <<>>
    /\ common_columns = {}
    /\ Len(source_df.data) >= 2
    /\ Len(target_df.data) >= 1

-----------------------------------------------------------------------------
(* C2 *)

\* C2: when several target columns of the mapping name the same source
\* column, each of them carries that source column's value in every
\* appended row.
C2_FanOut ==
    Merged =>
        \A k1, k2 \in 1..Len(manual_mappings) :
            (/\ k1 # k2
             /\ manual_mappings[k1][2] = manual_mappings[k2][2]
             /\ manual_mappings[k1][2] \in Range(source_df.columns))
            => \A i \in 1..Len(source_df.data) :
                  SameValue(AppendedCell(i, manual_mappings[k1][1]),
                            SourceCell(i, manual_mappings[k1][2]))

-----------------------------------------------------------------------------
(* C7 *)

\* C7: the merged table is the target's rows, unchanged and in order, then
\* one row per source row in the source's order; its header is the target's
\* header; in an appended row a column outside common_columns is blank, and
\* a common column holds a value of that same source row (or the empty
\* string put in place of a missing one).
C7_Frame ==
    Merged =>
        /\ appended_df.columns = target_df.columns
        /\ Len(appended_df.data) = Len(target_df.data) + Len(source_df.data)
        /\ \A i \in 1..Len(target_df.data) : appended_df.data[i] = target_df.data[i]
        /\ \A i \in 1..Len(source_df.data) :
           \A col \in Range(target_df.columns) :
              IF col \in common_columns
              THEN AppendedCell(i, col) \in {EmptyStr} \cup (Range(source_df.data[i]) \ {NaN})
              ELSE AppendedCell(i, col) = NaN

C7_Witness ==
    /\ Merged
    /\ Len(target_df.data) >= 2
    /\ Len(source_df.data) >= 2
    /\ common_columns # {}
    /\ Range(target_df.columns) \ common_columns # {}
    /\ \E i \in 1..Len(source_df.data) : \E col \in common_columns :
          AppendedCell(i, col) = EmptyStr
    /\ \E i \in 1..Len(source_df.data) : \E col \in common_columns :
          AppendedCell(i, col) # EmptyStr

-----------------------------------------------------------------------------
(* C3 *)

\* C3, as stated: a target column whose combo shows the placeholder is
\* Unmapped, with no chosen source column and no entry in the finalized
\* mapping, also when a real source column was selected for it earlier.
C3_SentinelReverts ==
    DialogAlive =>
        \A r \in Rows :
            (HasCombo(r) /\ combo_index[r] = 0)
            => /\ TargetCol(r) \notin DictKeys(manual_mappings)
               /\ SourceText(r) = NotMapped

\* C3, amended: going back to the placeholder changes nothing: the row
\* keeps the source column selected before, in the tree and in the mapping.
C3_SentinelKeeps ==
    [][\A r \in 1..Len(combo_index) :
          (/\ pc = "dialog" /\ pc' = "dialog"
           /\ combo_index[r] # 0
           /\ combo_index'[r] = 0)
          => /\ manual_mappings' = manual_mappings
             /\ item_text' = item_text
             /\ TargetCol(r) \in DictKeys(manual_mappings')
             /\ DictGet(manual_mappings', TargetCol(r))
                   = combo_items[r][combo_index[r] + 1]]_vars

C3_Witness ==
    /\ pc = "exec_returned"
    /\ dialog_result = 1
    /\ \E r \in Rows :
          /\ HasCombo(r)
          /\ combo_index[r] = 0
          /\ TargetCol(r) \in DictKeys(manual_mappings)
          /\ DictGet(manual_mappings, TargetCol(r)) = SourceText(r)

-----------------------------------------------------------------------------
(* C4 *)

\* C4: the finalized mapping holds a target column only with a chosen
\* source column: every entry names a column of the source header, and
\* belongs either to an exact match (the column mapped to itself) or to a
\* row whose combo offered that column and whose tree text shows it; a row
\* without exact match that still reads "Not Mapped" has no entry, and a
\* row whose combo shows a real item is mapped to that item.
C4_FinalizedOnlyChosen ==
    DialogAlive =>
        /\ \A k \in 1..Len(manual_mappings) :
              LET target_col == manual_mappings[k][1]
                  source_col == manual_mappings[k][2]
              IN  /\ source_col \in Range(source_columns)
                  /\ \E r \in Rows :
                        /\ TargetCol(r) = target_col
                        /\ SourceText(r) = source_col
                        /\ \/ ~HasCombo(r) /\ source_col = target_col
                           \/ HasCombo(r) /\ source_col \in Range(Offered(r))
        /\ NoRepeat([k \in 1..Len(manual_mappings) |-> manual_mappings[k][1]])
        /\ \A r \in Rows :
              /\ (HasCombo(r) /\ SourceText(r) = NotMapped)
                    => TargetCol(r) \notin DictKeys(manual_mappings)
              /\ (HasCombo(r) /\ combo_index[r] # 0)
                    => /\ TargetCol(r) \in DictKeys(manual_mappings)
                       /\ DictGet(manual_mappings, TargetCol(r))
                             = combo_items[r][combo_index[r] + 1]

C4_Witness ==
    /\ pc = "exec_returned"
    /\ dialog_result = 1
    /\ \E r \in Rows :
          /\ HasCombo(r)
          /\ Offered(r) # <<>>
          /\ SourceText(r) = NotMapped
          /\ TargetCol(r) \notin DictKeys(manual_mappings)
    /\ \E r \in Rows :
          /\ HasCombo(r)
          /\ combo_index[r] # 0
          /\ TargetCol(r) \in DictKeys(manual_mappings)
    /\ \E r \in Rows : ~HasCombo(r)

-----------------------------------------------------------------------------
(* C5 *)

\* C5: a target column is an exact entry (no combo, its own name as the
\* source text and as its entry of the mapping) exactly when the very same
\* name, case included, is in the source header; when the headers share no
\* name, no row is exact and the mapping is empty until the user selects.
C5_ExactIff ==
    DialogAlive =>
        /\ \A r \in Rows :
              (/\ ~HasCombo(r)
               /\ SourceText(r) = TargetCol(r)
               /\ TargetCol(r) \in DictKeys(manual_mappings)
               /\ DictGet(manual_mappings, TargetCol(r)) = TargetCol(r))
              <=> (\E j \in 1..Len(source_columns) : source_columns[j] = TargetCol(r))
        /\ (\A r \in Rows : \A j \in 1..Len(source_columns) :
                source_columns[j] # TargetCol(r))
              => /\ \A r \in Rows : HasCombo(r)
                 /\ (\A r \in Rows : SourceText(r) = NotMapped)
                       => manual_mappings = <<>>

C5_Witness ==
    /\ pc = "dialog"
    /\ \E r \in Rows :
          /\ TargetCol(r) = "name"
          /\ "Name" \in Range(source_columns)
          /\ HasCombo(r)
          /\ SourceText(r) = NotMapped
    /\ \E r \in Rows : ~HasCombo(r) /\ SourceText(r) = TargetCol(r)

-----------------------------------------------------------------------------
(* C6 *)

\* C6: for a target column without exact match the combo offers, after the
\* placeholder, names of the source header only, at most 5 of them, each
\* scoring at least 60 against the target column, in descending order of
\* score, none of them beaten by 5 source names, and it leaves out a source
\* name scoring at least 60 only when 5 others score at least as much; as
\* long as the user has selected nothing, the row reads "Not Mapped" and
\* no source column is chosen for it.
C6_Candidates ==
    DialogAlive =>
        \A r \in Rows :
            HasCombo(r) =>
                LET target_col == TargetCol(r)
                    offered == Offered(r)
                    n == Len(source_columns)
                    score(j) == Score(target_col, source_columns[j])
                IN  /\ combo_items[r][1] = Placeholder
                    /\ Len(offered) <= SuggestionLimit
                    /\ NoRepeat(offered)
                    /\ \A k \in 1..Len(offered) :
                          /\ offered[k] \in Range(source_columns)
                          /\ Score(target_col, offered[k]) >= ScoreThreshold
                          /\ Cardinality({j \in 1..n :
                                score(j) > Score(target_col, offered[k])})
                                < SuggestionLimit
                    /\ \A k, l \in 1..Len(offered) :
                          k < l => Score(target_col, offered[k])
                                      >= Score(target_col, offered[l])
                    /\ \A j \in 1..n :
                          (score(j) >= ScoreThreshold
                              /\ source_columns[j] \notin Range(offered))
                          => Cardinality({i \in 1..n : i # j /\ score(i) >= score(j)})
                                >= SuggestionLimit
                    /\ (combo_index[r] = 0 /\ SourceText(r) = NotMapped)
                          => target_col \notin DictKeys(manual_mappings)

C6_Witness ==
    /\ pc = "dialog"
    /\ \E r \in Rows :
          /\ HasCombo(r)
          /\ Len(Offered(r)) = SuggestionLimit
          /\ \E j \in 1..Len(source_columns) :
                /\ Score(TargetCol(r), source_columns[j]) >= ScoreThreshold
                /\ source_columns[j] \notin Range(Offered(r))
          /\ combo_index[r] = 0
          /\ SourceText(r) = NotMapped
    /\ \E r \in Rows : HasCombo(r) /\ Offered(r) = <<>>

-----------------------------------------------------------------------------
(* C9 *)

\* C9: the dialog never holds a mapping for a target workbook whose header
\* row repeats a column name (building the mapping fails instead).
C9_DuplicateRejected ==
    DialogAlive => NoRepeat(fs[target_input].header)

-----------------------------------------------------------------------------
(* C10 *)

\* C10: a step runs the merge (counts an append, writes a workbook, shows
\* statistics) only from the point where exec() has returned after Proceed
\* with both files selected, and then it writes the target file only; from
\* there the next step is that one merge, using the mapping the dialog
\* holds; after Cancel, or with a file missing, the step changes no
\* workbook, counts no append and opens no dialog on a missing file.
C10_MergeOnlyAfterProceed ==
    [][/\ (n_appends' # n_appends \/ fs' # fs \/ (stats' # stats /\ stats' # NoStats))
            => /\ pc = "exec_returned"
               /\ dialog_result = 1
               /\ source_input # "" /\ target_input # ""
               /\ n_appends' = n_appends + 1
               /\ \A p \in Paths : p # target_input => fs'[p] = fs[p]
       /\ (pc = "exec_returned" /\ dialog_result = 1)
            => /\ n_appends' = n_appends + 1
               /\ pc' = "main"
               /\ manual_mappings' = manual_mappings
               /\ fs'[target_input] = to_excel(appended_df')
               /\ message' = "Operation Successful"
       /\ (pc = "exec_returned" /\ dialog_result = 0)
            => fs' = fs /\ n_appends' = n_appends /\ pc' = "main"
       /\ (pc = "main" /\ (source_input = "" \/ target_input = ""))
            => fs' = fs /\ n_appends' = n_appends /\ pc' = "main"]_vars

C10_Witness ==
    /\ Merged
    /\ n_appends = 1
    /\ pc = "main"
    /\ fs[target_input] = to_excel(appended_df)
    /\ Len(source_df.data) >= 1

=============================================================================
